---- MODULE Spec2Model ----
(***************************************************************************)
(* Model of srs_estimator_generic_impl (SRS channel and noise estimator)   *)
(* with its per-RNTI CSI collection sink.                                  *)
(*                                                                         *)
(* Numbers.  The code computes in float/double.  The model computes in     *)
(* exact arithmetic: a real is a reduced fraction <<n, d>> (d > 0), a      *)
(* complex number is <<re, im, d>> with a common denominator.  Square      *)
(* roots are never taken: the noise standard deviation is carried as its   *)
(* square, and a normalised channel coefficient as the pair (coefficient,  *)
(* noise_std squared).  Division by a zero noise_std is the IEEE outcome   *)
(* (0 * inf = NaN), carried as a flag.                                     *)
(***************************************************************************)
EXTENDS Integers, Sequences, FiniteSets, TLC

\* ------------------------------------------------------------------ bounds
\* Longest pilot sequence the model draws (the shortest is MinSeqLen).
MaxSeqLen == 7
\* Number of estimate calls explored in the multi-call specification.
MaxCalls == 2
\* Latest reading of the wall clock.
MaxClock == 1

\* ---------------------------------------------------------------- integers
Abs(x) == IF x < 0 THEN -x ELSE x

RECURSIVE GCD(_, _)
GCD(a, b) == IF b = 0 THEN a ELSE GCD(b, a % b)

\* ------------------------------------------------------------------- reals
Rat(n, d) ==
  LET s == IF d < 0 THEN -1 ELSE 1
      g == GCD(Abs(n), Abs(d))
  IN  <<(s * n) \div g, (s * d) \div g>>

RZero == <<0, 1>>
RInt(k) == <<k, 1>>
\* Sums, products and comparisons cancel common factors before they multiply,
\* which keeps the intermediate integers small.
RAdd(x, y) ==
  LET g == GCD(x[2], y[2])
  IN  Rat(x[1] * (y[2] \div g) + y[1] * (x[2] \div g), (x[2] \div g) * y[2])
RMul(x, y) ==
  LET a == Rat(x[1], y[2])
      b == Rat(y[1], x[2])
  IN  <<a[1] * b[1], a[2] * b[2]>>
\* x / y for y # 0.
RDiv(x, y) == RMul(x, Rat(y[2], y[1]))
RLeq(x, y) ==
  LET g == GCD(x[2], y[2])
  IN  x[1] * (y[2] \div g) <= y[1] * (x[2] \div g)
RLt(x, y) ==
  LET g == GCD(x[2], y[2])
  IN  x[1] * (y[2] \div g) < y[1] * (x[2] \div g)
\* std::max(a, b) and std::min(a, b).
RMax(a, b) == IF RLt(a, b) THEN b ELSE a
RMin(a, b) == IF RLt(b, a) THEN b ELSE a

\* std::round: to the nearest integer, halves away from zero.
RRound(x) ==
  LET n == Abs(x[1])
      q == (2 * n + x[2]) \div (2 * x[2])
  IN  IF x[1] < 0 THEN -q ELSE q

\* ----------------------------------------------------------------- complex
Cx(a, b, d) ==
  LET s == IF d < 0 THEN -1 ELSE 1
      g == GCD(GCD(Abs(a), Abs(b)), Abs(d))
  IN  <<(s * a) \div g, (s * b) \div g, (s * d) \div g>>

CZero == <<0, 0, 1>>
CInt(a, b) == <<a, b, 1>>
CAdd(x, y) == Cx(x[1] * y[3] + y[1] * x[3], x[2] * y[3] + y[2] * x[3], x[3] * y[3])
CSub(x, y) == Cx(x[1] * y[3] - y[1] * x[3], x[2] * y[3] - y[2] * x[3], x[3] * y[3])
CMul(x, y) == Cx(x[1] * y[1] - x[2] * y[2], x[1] * y[2] + x[2] * y[1], x[3] * y[3])
CConj(x) == <<x[1], -x[2], x[3]>>
\* A complex number times a real.
CScale(x, r) == Cx(x[1] * r[1], x[2] * r[1], x[3] * r[2])
\* std::norm: the squared magnitude.
CNorm(x) == Rat(x[1] * x[1] + x[2] * x[2], x[3] * x[3])

\* ------------------------------------------------------------------ srsvec
\* A vector is a sequence; element n of the code is element n + 1 here.
\* Vec(f, len) is the sequence of the first len values of f, evaluated.
Vec(f, len) == SubSeq(f, 1, len)

RECURSIVE CSum(_, _)
CSum(x, i) == IF i = 0 THEN CZero ELSE CAdd(CSum(x, i - 1), x[i])

RECURSIVE RSum(_, _)
RSum(x, i) == IF i = 0 THEN RZero ELSE RAdd(RSum(x, i - 1), x[i])

srsvec_zero(len) == Vec([i \in 1..len |-> CZero], len)
srsvec_add(x, y) == Vec([i \in 1..Len(x) |-> CAdd(x[i], y[i])], Len(x))
srsvec_subtract(x, y) == Vec([i \in 1..Len(x) |-> CSub(x[i], y[i])], Len(x))
srsvec_prod(x, y) == Vec([i \in 1..Len(x) |-> CMul(x[i], y[i])], Len(x))
srsvec_prod_conj(x, y) == Vec([i \in 1..Len(x) |-> CMul(x[i], CConj(y[i]))], Len(x))
\* sc_prod with a real and with a complex scalar.
srsvec_sc_prod(x, r) == Vec([i \in 1..Len(x) |-> CScale(x[i], r)], Len(x))
srsvec_sc_prod_c(x, c) == Vec([i \in 1..Len(x) |-> CMul(x[i], c)], Len(x))
srsvec_mean(x) == CScale(CSum(x, Len(x)), Rat(1, Len(x)))
srsvec_average_power(x) ==
  RMul(RSum(Vec([i \in 1..Len(x) |-> CNorm(x[i])], Len(x)), Len(x)), Rat(1, Len(x)))

\* ------------------------------------------------- unsigned 32-bit integers
\* An unsigned is held as two 16-bit limbs <<high, low>>.
Limb == 65536

\* A faulty conversion: the sign is dropped.
ToUnsigned_magnitude(i) == <<(Abs(i) \div Limb) % Limb, Abs(i) % Limb>>

\* The conversion of an int to unsigned (the value modulo 2^32).
ToUnsigned(i) ==
  IF i >= 0
    THEN <<(i \div Limb) % Limb, i % Limb>>
    ELSE <<(Limb - 1) - ((((-i) - 1) \div Limb) % Limb), (Limb - 1) - (((-i) - 1) % Limb)>>

\* u % m for an unsigned u.
UMod(u, m) == (((u[1] % m) * (Limb % m)) + (u[2] % m)) % m

\* ------------------------------------------------- complex exponential table
\* The table holds exp(j 2 pi i / cexp_table_size).  The model's table has the
\* four entries that are exact: 1, j, -1, -j.
cexp_table_size == 4

cexp_table == <<CInt(1, 0), CInt(0, 1), CInt(-1, 0), CInt(0, -1)>>

\* cexp_table.generate(out, indices): out[n] = table[indices[n] mod size].
cexp_table_generate(phase_indices) ==
  Vec([i \in 1..Len(phase_indices) |-> cexp_table[UMod(phase_indices[i], cexp_table_size) + 1]],
      Len(phase_indices))

\* -------------------------------------------------------- phase compensator
\* The first len elements of a scratch buffer replaced by v, the rest kept.
First(buf, v) == Vec([i \in 1..Len(buf) |-> IF i <= Len(v) THEN v[i] ELSE buf[i]], Len(buf))

\* Phases are held in cycles (radians / TWOPI).  The index of element n is
\* static_cast<int>(round(size * (n * shift + offset) / TWOPI)) stored in an
\* unsigned.
phase_index(n, phase_shift_subcarrier, phase_shift_offset) ==
  ToUnsigned(RRound(RMul(RInt(cexp_table_size),
                         RAdd(RMul(RInt(n), phase_shift_subcarrier), phase_shift_offset))))

\* A faulty compensator: it multiplies by what temp_cexp held on entry and
\* fills the scratch buffers afterwards.
compensate_phase_shift_stale(scratch, mean_lse, phase_shift_subcarrier, phase_shift_offset) ==
  LET sequence_length == Len(mean_lse)
      phase_indices == Vec([i \in 1..sequence_length |->
                              phase_index(i - 1, phase_shift_subcarrier, phase_shift_offset)],
                           sequence_length)
  IN  [out |-> srsvec_prod(mean_lse, Vec(scratch.temp_cexp, sequence_length)),
       scratch |-> [temp_phase |-> First(scratch.temp_phase, phase_indices),
                    temp_cexp |-> First(scratch.temp_cexp, cexp_table_generate(phase_indices))]]

\* compensate_phase_shift: the compensated sequence and the scratch buffers
\* temp_phase and temp_cexp as the call leaves them.
compensate_phase_shift(scratch, mean_lse, phase_shift_subcarrier, phase_shift_offset) ==
  LET sequence_length == Len(mean_lse)
      phase_indices == Vec([i \in 1..sequence_length |->
                              phase_index(i - 1, phase_shift_subcarrier, phase_shift_offset)],
                           sequence_length)
      cexp == cexp_table_generate(phase_indices)
  IN  [out |-> srsvec_prod(mean_lse, cexp),
       scratch |-> [temp_phase |-> First(scratch.temp_phase, phase_indices),
                    temp_cexp |-> First(scratch.temp_cexp, cexp)]]

\* ----------------------------------------------------------- configuration
\* A request (srs_estimator_configuration) is a record
\*   [nof_antenna_ports, nof_symbols, start_symbol, comb_size, comb_offset,
\*    cyclic_shift, sequence_length, numerology, ports, context].
\* ports is the sequence of receive port identifiers; context is the optional
\* srs_context, held as its formatted text.

\* get_nsymb_per_slot(cyclic_prefix::NORMAL).
nof_symbols_per_slot == 14

\* The shortest pilot sequence: four resource blocks on comb 8.
MinSeqLen == 6

\* scs_to_khz(to_subcarrier_spacing(numerology)).
scs_to_khz(numerology) == IF numerology = 0 THEN 15 ELSE 15 * (2 ^ numerology)

\* Maximum number of cyclic shifts of a comb size.
n_cs_max_of(comb_size) == IF comb_size = 2 THEN 8 ELSE 12

\* The pilots of a four-port resource whose cyclic shift is in the upper half
\* are split over two combs: ports 1 and 3 move half a comb up.
get_srs_information(cfg, antenna_port) ==
  LET n_cs_max == n_cs_max_of(cfg.comb_size)
      split == cfg.nof_antenna_ports = 4 /\ cfg.cyclic_shift >= n_cs_max \div 2
      n_cs == IF split
                THEN (cfg.cyclic_shift + (n_cs_max * (antenna_port \div 2)) \div 2) % n_cs_max
                ELSE (cfg.cyclic_shift + (n_cs_max * antenna_port) \div cfg.nof_antenna_ports)
                       % n_cs_max
      k_tc == IF split /\ antenna_port % 2 = 1
                THEN (cfg.comb_offset + cfg.comb_size \div 2) % cfg.comb_size
                ELSE cfg.comb_offset
  IN  [sequence_length |-> cfg.sequence_length,
       mapping_initial_subcarrier |-> k_tc,
       comb_size |-> cfg.comb_size,
       n_cs |-> n_cs,
       n_cs_max |-> n_cs_max]

\* deps.sequence_generator->generate: a unit-power sequence, the all-ones base
\* sequence rotated by the cyclic shift, exp(j 2 pi n_cs n / n_cs_max).  The
\* requests of the model use cyclic shifts that are multiples of n_cs_max / 4.
sequence_generator_generate(len, n_cs, n_cs_max) ==
  Vec([i \in 1..len |-> cexp_table[((((4 * n_cs) \div n_cs_max) * (i - 1)) % 4) + 1]], len)

\* ------------------------------------------------------------ resource grid
\* The content of the grid is one of a few patterns of received samples.
GridKinds == {"zero", "flat", "tone", "vary"}

grid_sample(grid, port, symbol, subcarrier) ==
  CASE grid = "zero" -> CZero
    [] grid = "flat" -> CInt(2, 0)
    [] grid = "tone" -> CInt((subcarrier % 3) + port - 1, subcarrier % 2)
    [] OTHER -> CInt((subcarrier % 2) + (symbol % 2), port - (subcarrier % 3))

\* grid.get(out, port, symbol, k_init, stride): the samples of one symbol and
\* port on the subcarriers k_init, k_init + stride, ...
grid_get(grid, len, port, symbol, k_init, stride) ==
  Vec([i \in 1..len |-> grid_sample(grid, port, symbol, k_init + (i - 1) * stride)], len)

\* ------------------------------------------------------- time alignment unit
\* A time is held in units of 1 / UnitsPerSecond seconds.
UnitsPerSecond == 16 * 15000

\* std::numeric_limits<double>::min() is the smallest positive normalised
\* double and ::max() the largest finite one: the first is positive and below,
\* the second above, every value a measurement of the model takes.
DBL_MIN == <<1, 1000>>
DBL_MAX == <<1000, 1>>

\* ------------------------------------------------------------ CSI collector
\* The sink is the record sk = [rnti_collectors, dir_exists, files, metadata]:
\* the process-wide map of collectors and the part of the file system under
\* SRS_CSI_OUTPUT_DIR (binary files by name, the lines of
\* session_metadata.jsonl).  env = [now, dir_ok, meta_ok, bin_ok] is the
\* environment of a call: the wall clock, and whether the output directory can
\* be created, the metadata file opened and a binary file opened.

SRS_CSI_MAX_FILE_SIZE == 100 * 1024 * 1024

\* A faulty should_write: the size limit is not looked at.
should_write_never_rotates(sk, env, key, bytes_to_write) == sk

\* A default-constructed SRSCSICollector.
SRSCSICollector ==
  [rnti |-> 0, packet_counter |-> 0, file_counter |-> 0, current_file_size |-> 0,
   current_filename |-> <<>>, session_start_time |-> -1, initialized |-> FALSE]

\* A faulty format: the last hexadecimal digit is dropped.
rnti_hex_of_three_digits(rnti) ==
  <<0, rnti \div 4096, (rnti \div 256) % 16, (rnti \div 16) % 16>>

\* snprintf("0x%04x") of a 16-bit value: its four hexadecimal digits.
rnti_hex_of(rnti) ==
  <<rnti \div 4096, (rnti \div 256) % 16, (rnti \div 16) % 16, rnti % 16>>

\* write_metadata_entry: a line is appended when the metadata file opens.
write_metadata_entry(sk, env, key, event) ==
  LET c == sk.rnti_collectors[key]
  IN  IF env.meta_ok
        THEN [sk EXCEPT !.metadata =
                Append(@, [rnti |-> c.rnti, file |-> c.current_filename,
                           timestamp |-> env.now, event |-> event])]
        ELSE sk

\* rotate_file of the collector stored under key.
rotate_file(sk, env, key) ==
  LET c == sk.rnti_collectors[key]
      file_counter == c.file_counter + 1
      renamed == [c EXCEPT !.file_counter = file_counter,
                           !.current_filename =
                              <<rnti_hex_of(c.rnti), c.session_start_time, file_counter>>,
                           !.current_file_size = 0]
      sk1 == [sk EXCEPT !.rnti_collectors[key] = renamed]
  IN  IF file_counter > 1 THEN write_metadata_entry(sk1, env, key, "file_rotation") ELSE sk1

\* initialize: [sk, thrown].  std::filesystem::create_directories reports a
\* failure by throwing; nothing in initialize or in estimate catches it.
initialize(sk, env, key, rnti_value) ==
  IF sk.rnti_collectors[key].initialized
    THEN [sk |-> sk, thrown |-> FALSE]
    ELSE
      LET sk1 == [sk EXCEPT !.rnti_collectors[key].rnti = rnti_value]
      IN  IF ~sk1.dir_exists /\ ~env.dir_ok
            THEN [sk |-> sk1, thrown |-> TRUE]
            ELSE
              LET sk2 == [sk1 EXCEPT !.dir_exists = TRUE,
                                     !.rnti_collectors[key].session_start_time = env.now]
                  sk3 == rotate_file(sk2, env, key)
                  sk4 == write_metadata_entry(sk3, env, key, "session_start")
              IN  [sk |-> [sk4 EXCEPT !.rnti_collectors[key].initialized = TRUE],
                   thrown |-> FALSE]

\* should_write: rotates when the record would pass the size limit; the
\* returned value is always true.
should_write(sk, env, key, bytes_to_write) ==
  LET c == sk.rnti_collectors[key]
  IN  IF c.initialized /\ c.current_file_size + bytes_to_write > SRS_CSI_MAX_FILE_SIZE
        THEN rotate_file(sk, env, key)
        ELSE sk

\* A faulty update_size: the header alone is counted.
update_size_header_only(sk, key, bytes_written) ==
  [sk EXCEPT !.rnti_collectors[key].current_file_size = @ + 16]

update_size(sk, key, bytes_written) ==
  [sk EXCEPT !.rnti_collectors[key].current_file_size = @ + bytes_written]

\* The bytes the srs_file.write calls of lines 437-460 put into the file for a
\* record: sizeof(int64_t) and four sizeof(uint16_t) for the header, two
\* sizeof(uint16_t) and two sizeof(float) for each sample.
record_bytes(record) == (8 + 2 + 2 + 2 + 2) + Len(record.samples) * (2 + 2 + 4 + 4)

\* rnti_collectors[rnti_value]: the collector under the key, default-inserted
\* when the map has none.
collector_lookup(sk, key) ==
  IF key \in DOMAIN sk.rnti_collectors
    THEN sk
    ELSE [sk EXCEPT !.rnti_collectors = (key :> SRSCSICollector) @@ sk.rnti_collectors]

\* --------------------------------------------------------- context parsing
\* The formatted context is [has_value, has_rnti, digits]: whether the request
\* carries a context, whether its text contains "rnti=0x", and the characters
\* that follow it (0..15 a hexadecimal digit, 16 any other character).
NotHex == 16

RECURSIVE hex_prefix_len(_, _)
hex_prefix_len(digits, i) ==
  IF i > Len(digits) \/ digits[i] = NotHex THEN i - 1 ELSE hex_prefix_len(digits, i + 1)

RECURSIVE hex_value(_, _)
hex_value(digits, i) == IF i = 0 THEN 0 ELSE 16 * hex_value(digits, i - 1) + digits[i]

\* std::stoul(text, nullptr, 16): [ok, value]; it throws (ok = FALSE) when the
\* text starts with no digit.
stoul16(digits) ==
  LET n == hex_prefix_len(digits, 1)
  IN  [ok |-> n > 0, value |-> hex_value(digits, n)]

\* A faulty extraction: RNTI 0 is not skipped.
extract_rnti_zero_taken(context) ==
  IF ~context.has_value \/ ~context.has_rnti \/ ~stoul16(context.digits).ok
    THEN [found |-> FALSE, rnti_value |-> 0]
    ELSE [found |-> TRUE, rnti_value |-> stoul16(context.digits).value % 65536]

\* The RNTI the collection block extracts: [found, rnti_value]; found is FALSE
\* on every path that skips the pair.
extract_rnti(context) ==
  IF ~context.has_value THEN [found |-> FALSE, rnti_value |-> 0]
  ELSE IF ~context.has_rnti THEN [found |-> FALSE, rnti_value |-> 0]
  ELSE LET parsed == stoul16(context.digits)
           rnti_value == parsed.value % 65536
       IN  IF ~parsed.ok THEN [found |-> FALSE, rnti_value |-> 0]
           ELSE [found |-> rnti_value # 0, rnti_value |-> rnti_value]

\* ----------------------------------------------------------------- estimate
\* The state of one call of estimate is the record m: the local buffers
\* (temp_lse, temp_noise, all_sequences), the accumulators (epre, rsrp,
\* noise_var), the result under construction (time_alignment, channel_matrix),
\* the instance's scratch buffers, the sink, port_lse (the views of temp_lse
\* set as slices of the buffer reader handed to the time alignment estimator),
\* ta_calls (the calls of that estimator) and log, the sequence of the
\* operations performed, in order.  An event is [ev, r, p, x].
Event(ev, r, p, x) == [ev |-> ev, r |-> r, p |-> p, x |-> x]

nof_rx_ports_of(cfg) == Len(cfg.ports)

\* A faulty condition: the number of transmit ports is not looked at.
interleaved_pilots_any_ports(cfg) ==
  LET info_port0 == get_srs_information(cfg, 0)
  IN  info_port0.n_cs >= info_port0.n_cs_max \div 2

interleaved_pilots(cfg) ==
  LET info_port0 == get_srs_information(cfg, 0)
  IN  (cfg.nof_antenna_ports = 4) /\ (info_port0.n_cs >= info_port0.n_cs_max \div 2)

\* A faulty condition: transmit port 1 is never taken.
noise_port_zero_only(cfg, i_antenna_port) == i_antenna_port = 0

\* The ports whose raw samples feed the noise buffers and the EPRE.
noise_port(cfg, i_antenna_port) ==
  (i_antenna_port = 0) \/ (interleaved_pilots(cfg) /\ (i_antenna_port = 1))

\* The row of temp_noise a transmit port works on.
noise_row(cfg, i_antenna_port) == IF interleaved_pilots(cfg) THEN i_antenna_port % 2 ELSE 0

\* Maximum measurable delay due to cyclic shift, in time units.
max_ta_of(cfg) ==
  Rat(UnitsPerSecond,
      get_srs_information(cfg, 0).n_cs_max * scs_to_khz(cfg.numerology) * 1000 * cfg.comb_size)

\* The state at the start of the loops (lines 247-271).
prepare(cfg, scratch, sk) ==
  [outcome |-> "running",
   time_alignment |-> [time_alignment |-> RZero, resolution |-> RZero,
                       min |-> DBL_MIN, max |-> DBL_MAX],
   channel_matrix |-> Vec([r \in 1..nof_rx_ports_of(cfg) |->
                             Vec([p \in 1..cfg.nof_antenna_ports |-> CZero],
                                 cfg.nof_antenna_ports)],
                          nof_rx_ports_of(cfg)),
   assigned |-> {},
   temp_lse |-> Vec([r \in 1..nof_rx_ports_of(cfg) |->
                       Vec([p \in 1..cfg.nof_antenna_ports |->
                              srsvec_zero(cfg.sequence_length)],
                           cfg.nof_antenna_ports)],
                    nof_rx_ports_of(cfg)),
   all_sequences |-> Vec([p \in 1..cfg.nof_antenna_ports |->
                            srsvec_zero(cfg.sequence_length)],
                         cfg.nof_antenna_ports),
   temp_noise |-> Vec([row \in 1..2 |->
                         Vec([r \in 1..nof_rx_ports_of(cfg) |->
                                srsvec_zero(cfg.sequence_length)],
                             nof_rx_ports_of(cfg))],
                      2),
   epre |-> RZero, rsrp |-> RZero, noise_var |-> RZero,
   port_lse |-> {}, ta_calls |-> <<>>,
   scratch |-> scratch, sk |-> sk, log |-> <<>>]

\* One symbol of one (transmit, receive) pair (lines 299-315).
symbol_step(m, cfg, grid, i_antenna_port, i_rx_port_index, i_symbol) ==
  LET info == get_srs_information(cfg, i_antenna_port)
      i_rx_port == cfg.ports[i_rx_port_index + 1]
      rx_sequence == grid_get(grid, info.sequence_length, i_rx_port, i_symbol,
                              info.mapping_initial_subcarrier, info.comb_size)
      row == noise_row(cfg, i_antenna_port)
      m1 == [m EXCEPT !.log = Append(@, Event("grid_get", i_rx_port, i_antenna_port,
                                              RInt(i_symbol)))]
      m2 == IF noise_port(cfg, i_antenna_port)
              THEN [m1 EXCEPT !.temp_noise[row + 1][i_rx_port_index + 1] = srsvec_add(@, rx_sequence),
                              !.epre = RAdd(@, srsvec_average_power(rx_sequence)),
                              !.log = Append(@, Event("noise_add", i_rx_port_index,
                                                      i_antenna_port, RInt(row)))]
              ELSE m1
  IN  [m2 EXCEPT !.temp_lse[i_rx_port_index + 1][i_antenna_port + 1] =
         IF i_symbol = cfg.start_symbol THEN rx_sequence ELSE srsvec_add(@, rx_sequence)]

\* The symbols of one pair (lines 295-316), from i_symbol on.
RECURSIVE symbol_loop(_, _, _, _, _, _)
symbol_loop(m, cfg, grid, i_antenna_port, i_rx_port_index, i_symbol) ==
  IF m.outcome # "running" \/ i_symbol = cfg.start_symbol + cfg.nof_symbols
    THEN m
    ELSE symbol_loop(symbol_step(m, cfg, grid, i_antenna_port, i_rx_port_index, i_symbol),
                     cfg, grid, i_antenna_port, i_rx_port_index, i_symbol + 1)

\* The least-squares estimate of one pair from its summed samples (lines
\* 318-326), and the slice of the buffer reader set to it.
lse_step(m, cfg, i_antenna_port, i_rx_port_index) ==
  LET lse == srsvec_prod_conj(m.temp_lse[i_rx_port_index + 1][i_antenna_port + 1],
                              m.all_sequences[i_antenna_port + 1])
  IN  [m EXCEPT !.temp_lse[i_rx_port_index + 1][i_antenna_port + 1] =
                   IF cfg.nof_symbols > 1
                     THEN srsvec_sc_prod(lse, Rat(1, cfg.nof_symbols))
                     ELSE lse,
                !.port_lse = @ \cup {<<i_rx_port_index, i_antenna_port>>}]

\* One receive port of one transmit port (lines 285-327).
rx_port_step(m, cfg, grid, i_antenna_port, i_rx_port_index) ==
  lse_step(symbol_loop(m, cfg, grid, i_antenna_port, i_rx_port_index, cfg.start_symbol),
           cfg, i_antenna_port, i_rx_port_index)

RECURSIVE rx_port_loop(_, _, _, _, _)
rx_port_loop(m, cfg, grid, i_antenna_port, i_rx_port_index) ==
  IF m.outcome # "running" \/ i_rx_port_index = nof_rx_ports_of(cfg)
    THEN m
    ELSE rx_port_loop(rx_port_step(m, cfg, grid, i_antenna_port, i_rx_port_index),
                      cfg, grid, i_antenna_port, i_rx_port_index + 1)

\* A faulty combination: the upper bound and the resolution of the first
\* measurement win.
combine_time_alignment_first(acc, ta_meas) ==
  [time_alignment |-> RAdd(acc.time_alignment, RInt(ta_meas.time_alignment)),
   min |-> RMax(acc.min, RInt(ta_meas.min)),
   max |-> IF acc.max = DBL_MAX THEN RInt(ta_meas.max) ELSE acc.max,
   resolution |-> IF acc.max = DBL_MAX THEN RInt(ta_meas.resolution) ELSE acc.resolution]

\* std::max and std::min of doubles, and the combination of one measurement
\* into the result (lines 336-339).
combine_time_alignment(acc, ta_meas) ==
  [time_alignment |-> RAdd(acc.time_alignment, RInt(ta_meas.time_alignment)),
   min |-> RMax(acc.min, RInt(ta_meas.min)),
   max |-> RMin(acc.max, RInt(ta_meas.max)),
   resolution |-> RMax(acc.resolution, RInt(ta_meas.resolution))]

\* The pilot sequence of one transmit port and a fresh buffer reader (lines
\* 275-282).
sequence_step(m, cfg, i_antenna_port) ==
  LET info == get_srs_information(cfg, i_antenna_port)
  IN  [m EXCEPT !.all_sequences[i_antenna_port + 1] =
                   sequence_generator_generate(info.sequence_length, info.n_cs, info.n_cs_max),
                !.port_lse = {},
                !.log = Append(@, Event("generate", 0, i_antenna_port, RInt(info.n_cs)))]

\* The time alignment of one transmit port (lines 333-339).  ta is the time
\* alignment estimator: the measurement it returns for each transmit port.
time_alignment_step(m, cfg, ta, i_antenna_port) ==
  [m EXCEPT !.time_alignment = combine_time_alignment(@, ta[i_antenna_port]),
            !.ta_calls = Append(@, [antenna_port |-> i_antenna_port,
                                    port_lse |-> m.port_lse, ta_meas |-> ta[i_antenna_port]]),
            !.log = Append(@, Event("ta_estimate", Cardinality(m.port_lse), i_antenna_port,
                                    RInt(ta[i_antenna_port].time_alignment)))]

\* One transmit port (lines 273-340).
antenna_port_step(m, cfg, grid, ta, i_antenna_port) ==
  time_alignment_step(rx_port_loop(sequence_step(m, cfg, i_antenna_port),
                                   cfg, grid, i_antenna_port, 0),
                      cfg, ta, i_antenna_port)

RECURSIVE antenna_port_loop(_, _, _, _, _)
antenna_port_loop(m, cfg, grid, ta, i_antenna_port) ==
  IF m.outcome # "running" \/ i_antenna_port = cfg.nof_antenna_ports
    THEN m
    ELSE antenna_port_loop(antenna_port_step(m, cfg, grid, ta, i_antenna_port),
                           cfg, grid, ta, i_antenna_port + 1)

\* A faulty average: the sum is left undivided.
average_time_alignment_sum(m, cfg) ==
  [m EXCEPT !.log = Append(@, Event("ta_average", 0, 0, RInt(cfg.nof_antenna_ports)))]

\* Average time alignment across all paths (line 343).
average_time_alignment(m, cfg) ==
  [m EXCEPT !.time_alignment.time_alignment = RDiv(@, RInt(cfg.nof_antenna_ports)),
            !.log = Append(@, Event("ta_average", 0, 0, RInt(cfg.nof_antenna_ports)))]

\* A faulty subcarrier index: the tones are taken to be next to each other.
sc_idx_of_dense(info, comb_size, tone_idx) ==
  (info.mapping_initial_subcarrier + tone_idx) % 65536

\* actual_subcarrier cast to uint16_t (lines 446 and 450).
sc_idx_of(info, comb_size, tone_idx) ==
  (info.mapping_initial_subcarrier + tone_idx * comb_size) % 65536

\* A faulty sample loop: the conjugate of each coefficient is written.
csi_samples_conjugate(cfg, info, mean_lse) ==
  LET symbol_idx == cfg.start_symbol
  IN  Vec([i \in 1..Len(mean_lse) |->
             [sc_idx |-> sc_idx_of(info, cfg.comb_size, i - 1),
              sym_idx |-> symbol_idx % 65536,
              h |-> CConj(mean_lse[i])]],
          Len(mean_lse))

\* The per-tone samples of a record (lines 439-460): the subcarrier and the
\* symbol, each cast to uint16_t, and the coefficient of the tone; tone_idx is
\* i - 1.
csi_samples(cfg, info, mean_lse) ==
  LET symbol_idx == cfg.start_symbol
  IN  Vec([i \in 1..Len(mean_lse) |->
             [sc_idx |-> sc_idx_of(info, cfg.comb_size, i - 1),
              sym_idx |-> symbol_idx % 65536,
              h |-> mean_lse[i]]],
          Len(mean_lse))

\* The CSI collection block of one pair (lines 367-469): [m, skip], where skip
\* says that the block left the iteration with continue.  mean_lse is the
\* compensated least-squares buffer of the pair.
csi_collection(m, cfg, env, i_rx_port, i_antenna_port) ==
  LET info == get_srs_information(cfg, i_antenna_port)
      mean_lse == m.temp_lse[i_rx_port + 1][i_antenna_port + 1]
      ex == extract_rnti(cfg.context)
      rnti_value == ex.rnti_value
  IN  IF ~ex.found
        THEN [m |-> m, skip |-> TRUE]
        ELSE
          LET sk1 == collector_lookup(m.sk, rnti_value)
              init == initialize(sk1, env, rnti_value, rnti_value)
          IN  IF init.thrown
                THEN [m |-> [m EXCEPT !.sk = init.sk, !.outcome = "exception"], skip |-> FALSE]
                ELSE
                  LET sk2 == [init.sk EXCEPT !.rnti_collectors[rnti_value].packet_counter = @ + 1]
                      header_size == 16
                      sample_size == Len(mean_lse) * 12
                      total_size == header_size + sample_size
                      sk3 == should_write(sk2, env, rnti_value, total_size)
                      name == sk3.rnti_collectors[rnti_value].current_filename
                      record ==
                        [timestamp |-> env.now,
                         rnti |-> rnti_value,
                         rx_port |-> i_rx_port % 65536,
                         tx_port |-> i_antenna_port % 65536,
                         seq_len |-> Len(mean_lse) % 65536,
                         samples |-> csi_samples(cfg, info, mean_lse)]
                      old == IF name \in DOMAIN sk3.files THEN sk3.files[name] ELSE <<>>
                      sk4 == IF env.bin_ok
                               THEN update_size(
                                      [sk3 EXCEPT !.files =
                                         (name :> Append(old, record)) @@ sk3.files],
                                      rnti_value, total_size)
                               ELSE sk3
                  IN  [m |-> [m EXCEPT !.sk = sk4,
                                       !.log = IF env.bin_ok
                                                 THEN Append(@, Event("record", i_rx_port,
                                                                      i_antenna_port,
                                                                      RInt(total_size)))
                                                 ELSE @],
                       skip |-> FALSE]

\* What follows the collection block for one pair (lines 472-491).
coefficient_step(m, cfg, i_rx_port, i_antenna_port, phase_shift_subcarrier, phase_shift_offset) ==
  LET mean_lse == m.temp_lse[i_rx_port + 1][i_antenna_port + 1]
      coefficient == srsvec_mean(mean_lse)
      row == noise_row(cfg, i_antenna_port)
      comp == compensate_phase_shift(m.scratch, m.temp_noise[row + 1][i_rx_port + 1],
                                     phase_shift_subcarrier, phase_shift_offset)
      m1 == [m EXCEPT !.channel_matrix[i_rx_port + 1][i_antenna_port + 1] = coefficient,
                      !.assigned = @ \cup {<<i_rx_port, i_antenna_port>>},
                      !.rsrp = RAdd(@, CNorm(coefficient))]
      m2 == IF noise_port(cfg, i_antenna_port)
              THEN [m1 EXCEPT !.temp_noise[row + 1][i_rx_port + 1] = comp.out,
                              !.scratch = comp.scratch,
                              !.log = Append(@, Event("compensate_noise", i_rx_port,
                                                      i_antenna_port, RInt(row)))]
              ELSE m1
      recovered_signal == srsvec_sc_prod_c(m2.all_sequences[i_antenna_port + 1],
                                           CScale(coefficient, RInt(cfg.nof_symbols)))
  IN  [m2 EXCEPT !.temp_noise[row + 1][i_rx_port + 1] = srsvec_subtract(@, recovered_signal),
                 !.log = Append(@, Event("subtract", i_rx_port, i_antenna_port, RInt(row)))]

\* One (receive, transmit) pair of the second loop (lines 349-492).
pair_step(m, cfg, env, i_rx_port, i_antenna_port) ==
  LET info == get_srs_information(cfg, i_antenna_port)
      phase_shift_subcarrier ==
        RMul(m.time_alignment.time_alignment,
             Rat(scs_to_khz(cfg.numerology) * 1000 * cfg.comb_size, UnitsPerSecond))
      phase_shift_offset ==
        RMul(phase_shift_subcarrier, Rat(info.mapping_initial_subcarrier, cfg.comb_size))
      comp == compensate_phase_shift(m.scratch, m.temp_lse[i_rx_port + 1][i_antenna_port + 1],
                                     phase_shift_subcarrier, phase_shift_offset)
      m1 == [m EXCEPT !.temp_lse[i_rx_port + 1][i_antenna_port + 1] = comp.out,
                      !.scratch = comp.scratch,
                      !.log = Append(@, Event("compensate_lse", i_rx_port, i_antenna_port,
                                              m.time_alignment.time_alignment))]
      csi == csi_collection(m1, cfg, env, i_rx_port, i_antenna_port)
  IN  IF csi.m.outcome # "running" \/ csi.skip
        THEN csi.m
        ELSE coefficient_step(csi.m, cfg, i_rx_port, i_antenna_port,
                              phase_shift_subcarrier, phase_shift_offset)

RECURSIVE pair_loop(_, _, _, _, _)
pair_loop(m, cfg, env, i_rx_port, i_antenna_port) ==
  IF m.outcome # "running" \/ i_antenna_port = cfg.nof_antenna_ports
    THEN m
    ELSE pair_loop(pair_step(m, cfg, env, i_rx_port, i_antenna_port),
                   cfg, env, i_rx_port, i_antenna_port + 1)

\* The residual power of the noise buffers of one receive port (lines 493-499).
noise_power_step(m, cfg, i_rx_port) ==
  IF m.outcome # "running" THEN m ELSE
  LET power(row) == RMul(srsvec_average_power(m.temp_noise[row + 1][i_rx_port + 1]),
                         RInt(Len(m.temp_noise[row + 1][i_rx_port + 1])))
      m1 == [m EXCEPT !.noise_var = RAdd(@, power(0)),
                      !.log = Append(@, Event("noise_power", i_rx_port, 0, RInt(0)))]
  IN  IF interleaved_pilots(cfg)
        THEN [m1 EXCEPT !.noise_var = RAdd(@, power(1)),
                        !.log = Append(@, Event("noise_power", i_rx_port, 0, RInt(1)))]
        ELSE m1

RECURSIVE compensate_loop(_, _, _, _)
compensate_loop(m, cfg, env, i_rx_port) ==
  IF m.outcome # "running" \/ i_rx_port = nof_rx_ports_of(cfg)
    THEN m
    ELSE compensate_loop(noise_power_step(pair_loop(m, cfg, env, i_rx_port, 0), cfg, i_rx_port),
                         cfg, env, i_rx_port + 1)

\* convert_power_to_dB: 10 log10 of a linear power, held by its argument.
convert_power_to_dB(power) == [dB_of |-> power]

\* A faulty noise_std: sqrt(noise_var) without the floor.
noise_std_sq_unclamped(noise_var, rsrp) == noise_var

\* The square of the noise standard deviation the channel matrix is divided
\* by (line 512): max(sqrt(noise_var), sqrt(rsrp) * 0.01F), squared.
noise_std_sq_of(noise_var, rsrp) == RMax(noise_var, RMul(rsrp, Rat(1, 10000)))

\* A coefficient multiplied by 1 / noise_std (line 513).  With noise_std = 0
\* the factor is infinite and the product of a zero coefficient is NaN.
normalise(coefficient, noise_std_sq) ==
  [finite |-> noise_std_sq # RZero, coef |-> coefficient, std_sq |-> noise_std_sq]

\* A call that does not return: the assertion failed ("abort") or an exception
\* left estimate ("exception").
NoResult == [channel_matrix |-> [nof_rx_ports |-> 0, nof_tx_ports |-> 0, coefficients |-> <<>>],
             time_alignment |-> [time_alignment |-> RZero, resolution |-> RZero,
                                 min |-> RZero, max |-> RZero],
             noise_variance |-> RZero,
             epre_dB |-> convert_power_to_dB(RZero),
             rsrp_dB |-> convert_power_to_dB(RZero)]

no_return(outcome, m) ==
  [outcome |-> outcome, result |-> NoResult,
   obs |-> [assigned |-> m.assigned, rsrp_acc |-> m.rsrp, noise_acc |-> m.noise_var,
            epre_acc |-> m.epre, noise_std_sq |-> RZero,
            ta_calls |-> m.ta_calls, log |-> m.log],
   scratch |-> m.scratch, sk |-> m.sk]

\* Lines 505-523: the result, and what the call observed on the way.
finish(m, cfg) ==
  IF m.outcome # "running" THEN no_return(m.outcome, m) ELSE
  LET nof_rx_ports == nof_rx_ports_of(cfg)
      nof_estimates == IF interleaved_pilots(cfg) THEN 2 ELSE cfg.nof_antenna_ports
      correction_factor == IF interleaved_pilots(cfg) THEN 2 ELSE 1
      noise_var == RDiv(m.noise_var,
                        RInt((cfg.nof_symbols * cfg.sequence_length - nof_estimates)
                               * correction_factor * nof_rx_ports))
      noise_std_sq == noise_std_sq_of(noise_var, m.rsrp)
      epre == RDiv(m.epre, RInt(cfg.nof_symbols * correction_factor * nof_rx_ports))
      rsrp == RDiv(m.rsrp, RInt(cfg.nof_antenna_ports * nof_rx_ports))
  IN  [outcome |-> "returned",
       result |-> [channel_matrix |->
                     [nof_rx_ports |-> nof_rx_ports,
                      nof_tx_ports |-> cfg.nof_antenna_ports,
                      coefficients |->
                        Vec([r \in 1..nof_rx_ports |->
                               Vec([p \in 1..cfg.nof_antenna_ports |->
                                      normalise(m.channel_matrix[r][p], noise_std_sq)],
                                   cfg.nof_antenna_ports)],
                            nof_rx_ports)],
                   time_alignment |-> m.time_alignment,
                   noise_variance |-> noise_var,
                   epre_dB |-> convert_power_to_dB(epre),
                   rsrp_dB |-> convert_power_to_dB(rsrp)],
       obs |-> [assigned |-> m.assigned, rsrp_acc |-> m.rsrp, noise_acc |-> m.noise_var,
                epre_acc |-> m.epre, noise_std_sq |-> noise_std_sq,
                ta_calls |-> m.ta_calls, log |-> m.log],
       scratch |-> m.scratch, sk |-> m.sk]

\* srs_validator_generic_impl::is_valid, asserted at lines 218-219: the
\* supported numbers of transmit ports and comb sizes.
is_valid(cfg) == cfg.nof_antenna_ports \in {1, 2, 4} /\ cfg.comb_size \in {2, 4}

\* The assertion of lines 226-231.
symbols_fit(cfg) == cfg.start_symbol + cfg.nof_symbols <= nof_symbols_per_slot

\* srsran_assert: ends the call when the condition is false, in a build whose
\* assertions are active; in the other builds the condition is not evaluated
\* (lines 51-52 and 219: handle_validation and msg are [[maybe_unused]]).
srsran_assert(env, condition) == ~env.asserts_active \/ condition

\* estimate(grid, config) on an instance whose scratch buffers are scratch,
\* with the sink in state sk, the time alignment estimator ta and the
\* environment env.
estimate(grid, cfg, ta, env, scratch, sk) ==
  IF ~srsran_assert(env, is_valid(cfg)) \/ ~srsran_assert(env, symbols_fit(cfg))
    THEN no_return("abort", prepare(cfg, scratch, sk))
    ELSE
      finish(compensate_loop(
               average_time_alignment(
                 antenna_port_loop(prepare(cfg, scratch, sk), cfg, grid, ta, 0), cfg),
               cfg, env, 0),
             cfg)

\* ------------------------------------------------------------------- state
VARIABLES
  rnti_collectors,  \* the process-wide map RNTI -> SRSCSICollector
  dir_exists,       \* SRS_CSI_OUTPUT_DIR exists
  files,            \* the binary files of the directory: name -> records
  metadata,         \* the lines of session_metadata.jsonl
  temp_phase,       \* the estimator instance's scratch: phase indices
  temp_cexp,        \* the estimator instance's scratch: complex exponentials
  now,              \* the wall clock
  fs,               \* what the file system lets the process do
  last,             \* the last call of estimate: its input, outcome and result
  prev,             \* the call before the last one: its input, outcome and result
  calls,            \* number of calls made
  threads,          \* the concurrent execution contexts, each with its own instance
  race,             \* two contexts have accessed rnti_collectors at once, one writing
  corrupted,        \* a racing insertion has left rnti_collectors inconsistent
  asserts_active    \* the build evaluates srsran_assert

vars == <<rnti_collectors, dir_exists, files, metadata, temp_phase, temp_cexp,
          now, fs, last, prev, calls, threads, race, corrupted, asserts_active>>

\* ------------------------------------------------------------------ inputs
CtxNone == [has_value |-> FALSE, has_rnti |-> FALSE, digits |-> <<>>]
CtxNoRnti == [has_value |-> TRUE, has_rnti |-> FALSE, digits |-> <<>>]
CtxBad == [has_value |-> TRUE, has_rnti |-> TRUE, digits |-> <<NotHex, 4>>]
CtxZero == [has_value |-> TRUE, has_rnti |-> TRUE, digits |-> <<0, 0, 0, 0>>]
CtxWrap == [has_value |-> TRUE, has_rnti |-> TRUE, digits |-> <<1, 0, 0, 0, 0>>]
CtxA == [has_value |-> TRUE, has_rnti |-> TRUE, digits |-> <<4, 6, 0, 1>>]
CtxB == [has_value |-> TRUE, has_rnti |-> TRUE, digits |-> <<4, 6, 0, 2, NotHex>>]

Contexts == {CtxNone, CtxNoRnti, CtxBad, CtxZero, CtxWrap, CtxA, CtxB}

\* The requests: every combination of the listed values.  shifts lists the
\* cyclic shifts in units of half the maximum cyclic shift.
RequestsOf(tx_ports, symbols, starts, combs, offsets, shifts, lengths, mus, rx_ports, ctxs) ==
  {c \in [nof_antenna_ports : tx_ports, nof_symbols : symbols, start_symbol : starts,
          comb_size : combs, comb_offset : offsets, cyclic_shift : {0, 4, 6},
          sequence_length : lengths, numerology : mus,
          ports : rx_ports, context : ctxs] :
     \E h \in shifts : c.cyclic_shift = h * (n_cs_max_of(c.comb_size) \div 2)}

\* The measurements the time alignment estimator may return: each satisfies
\* min <= time_alignment <= max and has a resolution >= 0.
TaMeasurements(estimates, mins, maxs, resolutions) ==
  {t \in [time_alignment : estimates, min : mins, max : maxs, resolution : resolutions] :
     t.min <= t.time_alignment /\ t.time_alignment <= t.max}

FsModes ==
  {f \in [dir_ok : BOOLEAN, meta_ok : BOOLEAN, bin_ok : BOOLEAN] :
     Cardinality({x \in {f.dir_ok, f.meta_ok, f.bin_ok} : ~x}) <= 1
       /\ (f.dir_ok \/ (f.meta_ok /\ f.bin_ok))}

\* ----------------------------------------------------------------- actions
\* The scratch buffers of a freshly constructed instance.
NewScratch ==
  [temp_phase |-> Vec([i \in 1..MaxSeqLen |-> ToUnsigned(0)], MaxSeqLen),
   temp_cexp |-> Vec([i \in 1..MaxSeqLen |-> CZero], MaxSeqLen)]

\* The sink of a fresh process on a machine without the output directory.
NewSink == [rnti_collectors |-> <<>>, dir_exists |-> FALSE, files |-> <<>>, metadata |-> <<>>]

NoCall == [outcome |-> "none", input |-> <<>>, result |-> NoResult, obs |-> <<>>]

\* The execution contexts of the concurrent specification, each at rest.
Threads == {1, 2}

NewThread ==
  [pc |-> "idle", mode |-> "none", raced |-> FALSE, calls |-> 0,
   scratch |-> NewScratch, outcome |-> "none", result |-> NoResult,
   pending |-> <<>>, capacity |-> 0, name |-> <<>>]

Init ==
  /\ rnti_collectors = NewSink.rnti_collectors
  /\ dir_exists = NewSink.dir_exists
  /\ files = NewSink.files
  /\ metadata = NewSink.metadata
  /\ temp_phase = NewScratch.temp_phase
  /\ temp_cexp = NewScratch.temp_cexp
  /\ now = 0
  /\ fs = [dir_ok |-> TRUE, meta_ok |-> TRUE, bin_ok |-> TRUE]
  /\ last = NoCall
  /\ prev = NoCall
  /\ calls = 0
  /\ threads = [t \in Threads |-> NewThread]
  /\ race = FALSE
  /\ corrupted = FALSE
  /\ asserts_active \in BOOLEAN

\* One call of estimate.
Estimate(grid, cfg, ta) ==
  /\ calls < MaxCalls
  /\ last.outcome # "abort"
  /\ \E input \in {[grid |-> grid, cfg |-> cfg, ta |-> ta]},
        e \in {estimate(grid, cfg, ta,
                        [now |-> now, dir_ok |-> fs.dir_ok, meta_ok |-> fs.meta_ok,
                         bin_ok |-> fs.bin_ok, asserts_active |-> asserts_active],
                        [temp_phase |-> temp_phase, temp_cexp |-> temp_cexp],
                        [rnti_collectors |-> rnti_collectors, dir_exists |-> dir_exists,
                         files |-> files, metadata |-> metadata])} :
         /\ last' = [outcome |-> e.outcome, input |-> input, result |-> e.result,
                     obs |-> e.obs]
         /\ rnti_collectors' = e.sk.rnti_collectors
         /\ dir_exists' = e.sk.dir_exists
         /\ files' = e.sk.files
         /\ metadata' = e.sk.metadata
         /\ temp_phase' = e.scratch.temp_phase
         /\ temp_cexp' = e.scratch.temp_cexp
  /\ prev' = [last EXCEPT !.obs = <<>>]
  /\ calls' = calls + 1
  /\ UNCHANGED <<now, fs, threads, race, corrupted, asserts_active>>

EstimateIn(grids, requests, measurements) ==
  \E grid \in grids, cfg \in requests :
    \E ta \in [0..(cfg.nof_antenna_ports - 1) -> measurements] : Estimate(grid, cfg, ta)

\* A call has begun.
Started == calls > 0 \/ \E t \in Threads : threads[t] # NewThread

\* The clock advances.  Time is counted from the first call.  (Explored while
\* a call can still follow.)
Tick ==
  /\ Started
  /\ calls < MaxCalls
  /\ last.outcome # "abort"
  /\ now < MaxClock
  /\ now' = now + 1
  /\ UNCHANGED <<rnti_collectors, dir_exists, files, metadata, temp_phase, temp_cexp,
                 fs, last, prev, calls, threads, race, corrupted, asserts_active>>

\* The file system changes what it allows.  (Explored while a call can still
\* follow.)
SetFs ==
  /\ calls < MaxCalls
  /\ last.outcome # "abort"
  /\ \E f \in FsModes : f # fs /\ fs' = f
  /\ UNCHANGED <<rnti_collectors, dir_exists, files, metadata, temp_phase, temp_cexp,
                 now, last, prev, calls, threads, race, corrupted, asserts_active>>

\* -------------------------------------------------------- concurrent calls
\* Two execution contexts, each with an estimator instance of its own, call
\* estimate for different RNTIs.  What a call does before it reaches
\* rnti_collectors[rnti_value] (line 400) touches only its own instance, its
\* arguments and its locals; the steps that touch the shared map and the sink
\* are the ones the contexts interleave on:
\*   idle -> lookup    estimate is entered and runs to line 400;
\*   lookup -> in_map  std::map::operator[] starts: it searches the tree and,
\*                     with the key absent, links a new node into it;
\*   in_map -> use     operator[] returns the reference;
\*   use -> idle       the collector is used, the record written and the call
\*                     runs to its end (lines 403-523).
ThreadContext(t) == IF t = 1 THEN CtxA ELSE CtxB

ThreadRequest(t) ==
  [nof_antenna_ports |-> 1, nof_symbols |-> 1, start_symbol |-> 13, comb_size |-> 2,
   comb_offset |-> 0, cyclic_shift |-> 0, sequence_length |-> MinSeqLen, numerology |-> 1,
   ports |-> <<0>>, context |-> ThreadContext(t)]

ThreadTa == (0 :> [time_alignment |-> 1, min |-> -2, max |-> 2, resolution |-> 1])

ThreadKey(t) == extract_rnti(ThreadRequest(t).context).rnti_value

ConcStart(t) ==
  /\ ~corrupted
  /\ threads[t].pc = "idle"
  /\ threads[t].calls < MaxCalls
  /\ threads' = [threads EXCEPT ![t].pc = "lookup"]
  /\ UNCHANGED <<rnti_collectors, dir_exists, files, metadata, temp_phase, temp_cexp,
                 now, fs, last, prev, calls, race, corrupted, asserts_active>>

\* operator[] starts.  It writes the tree when the key is absent.  It conflicts
\* with every operator[] another context has in progress when either of the
\* two writes: nothing orders the two accesses.
ConcLookupBegin(t) ==
  /\ ~corrupted
  /\ threads[t].pc = "lookup"
  /\ LET mode == IF ThreadKey(t) \in DOMAIN rnti_collectors THEN "find" ELSE "insert"
         conflicts == {u \in Threads \ {t} :
                         threads[u].pc = "in_map"
                           /\ (mode = "insert" \/ threads[u].mode = "insert")}
     IN  /\ threads' = [u \in Threads |->
                          IF u = t
                            THEN [threads[u] EXCEPT !.pc = "in_map", !.mode = mode,
                                                    !.raced = conflicts # {}]
                            ELSE IF u \in conflicts
                                   THEN [threads[u] EXCEPT !.raced = TRUE]
                                   ELSE threads[u]]
         /\ race' = (race \/ conflicts # {})
  /\ UNCHANGED <<rnti_collectors, dir_exists, files, metadata, temp_phase, temp_cexp,
                 now, fs, last, prev, calls, corrupted, asserts_active>>

\* operator[] returns.  After a race the behaviour is undefined: the tree is
\* either intact with the node linked in, or inconsistent.
ConcLookupEnd(t) ==
  /\ ~corrupted
  /\ threads[t].pc = "in_map"
  /\ \E intact \in (IF threads[t].raced THEN BOOLEAN ELSE {TRUE}) :
       /\ corrupted' = ~intact
       /\ rnti_collectors' =
            IF intact
              THEN collector_lookup([rnti_collectors |-> rnti_collectors], ThreadKey(t))
                     .rnti_collectors
              ELSE rnti_collectors
  /\ threads' = [threads EXCEPT ![t].pc = "use", ![t].mode = "none", ![t].raced = FALSE]
  /\ UNCHANGED <<dir_exists, files, metadata, temp_phase, temp_cexp,
                 now, fs, last, prev, calls, race, asserts_active>>

\* The rest of the call, on the collector the lookup returned.
ConcUse(t) ==
  /\ ~corrupted
  /\ threads[t].pc = "use"
  /\ \E e \in {estimate("tone", ThreadRequest(t), ThreadTa,
                          [now |-> now, dir_ok |-> fs.dir_ok, meta_ok |-> fs.meta_ok,
                           bin_ok |-> fs.bin_ok, asserts_active |-> asserts_active],
                          threads[t].scratch,
                          [rnti_collectors |-> rnti_collectors, dir_exists |-> dir_exists,
                           files |-> files, metadata |-> metadata])} :
       /\ threads' = [threads EXCEPT ![t].pc = "idle", ![t].calls = @ + 1,
                                     ![t].scratch = e.scratch, ![t].outcome = e.outcome,
                                     ![t].result = e.result]
       /\ rnti_collectors' = e.sk.rnti_collectors
       /\ dir_exists' = e.sk.dir_exists
       /\ files' = e.sk.files
       /\ metadata' = e.sk.metadata
  /\ UNCHANGED <<temp_phase, temp_cexp, now, fs, last, prev, calls, race, corrupted, asserts_active>>

\* ------------------------------------------- concurrent calls, one RNTI
\* Two execution contexts, each with an estimator instance of its own, call
\* estimate for the same RNTI, whose collector exists.  A call takes the
\* collector (line 400), counts the packet (line 407), opens its own
\* std::ofstream on the collector's file in append mode (lines 415-416) and
\* hands the record to the stream field by field (lines 437-460).  The stream
\* keeps what it is given in its buffer and appends the buffer to the file when
\* the buffer is full and when the stream is closed (line 462); nothing orders
\* the appends of two streams.  The file is listed in units, the header or one
\* sample each, marked with the context and the call that wrote them.

\* The request of either context.
SameRequest == ThreadRequest(1)

SameKey == extract_rnti(SameRequest.context).rnti_value

\* The capacity of the stream's buffer, in units: smaller than a record, or
\* larger than any record.
StreamCapacities == {4, 2 * MaxSeqLen + 2}

\* The units of a record as the stream of context t receives them.
record_units(record, t, call) ==
  [i \in 1..(Len(record.samples) + 1) |->
     [writer |-> t, call |-> call, unit |-> i - 1, tone_count |-> record.seq_len]]

\* The sink after a first call for the RNTI whose collector was initialised and
\* whose binary file could not be opened.
SameSink ==
  estimate("tone", SameRequest, ThreadTa,
           [now |-> 0, dir_ok |-> TRUE, meta_ok |-> TRUE, bin_ok |-> FALSE,
            asserts_active |-> TRUE],
           NewScratch, NewSink).sk

InitSame ==
  /\ rnti_collectors = SameSink.rnti_collectors
  /\ dir_exists = SameSink.dir_exists
  /\ files = SameSink.files
  /\ metadata = SameSink.metadata
  /\ temp_phase = NewScratch.temp_phase
  /\ temp_cexp = NewScratch.temp_cexp
  /\ now = 0
  /\ fs = [dir_ok |-> TRUE, meta_ok |-> TRUE, bin_ok |-> TRUE]
  /\ last = NoCall
  /\ prev = NoCall
  /\ calls = 0
  /\ threads = [t \in Threads |-> NewThread]
  /\ race = FALSE
  /\ corrupted = FALSE
  /\ asserts_active \in BOOLEAN

\* The call up to the opening of the stream; the record is in the stream.
SameOpen(t) ==
  /\ threads[t].pc = "idle"
  /\ threads[t].calls < MaxCalls
  /\ \E capacity \in StreamCapacities,
        e \in {estimate("tone", SameRequest, ThreadTa,
                        [now |-> now, dir_ok |-> fs.dir_ok, meta_ok |-> fs.meta_ok,
                         bin_ok |-> fs.bin_ok, asserts_active |-> asserts_active],
                        threads[t].scratch,
                        [rnti_collectors |-> rnti_collectors, dir_exists |-> dir_exists,
                         files |-> <<>>, metadata |-> metadata])} :
       \E name \in {e.sk.rnti_collectors[SameKey].current_filename} :
         threads' = [threads EXCEPT
                       ![t].pc = "writing",
                       ![t].pending = record_units(e.sk.files[name][1], t, threads[t].calls + 1),
                       ![t].capacity = capacity,
                       ![t].name = name,
                       ![t].scratch = e.scratch,
                       ![t].result = e.result]
  /\ rnti_collectors' = [rnti_collectors EXCEPT ![SameKey].packet_counter = @ + 1]
  /\ UNCHANGED <<dir_exists, files, metadata, temp_phase, temp_cexp,
                 now, fs, last, prev, calls, race, corrupted, asserts_active>>

\* The stream of context t appends its buffer to the file: a full buffer, or
\* what is left when the stream is closed.
SameFlush(t) ==
  /\ threads[t].pc = "writing"
  /\ threads[t].pending # <<>>
  /\ \E k \in {IF Len(threads[t].pending) > threads[t].capacity
                  THEN threads[t].capacity ELSE Len(threads[t].pending)},
        old \in {IF threads[t].name \in DOMAIN files THEN files[threads[t].name] ELSE <<>>} :
       /\ files' = (threads[t].name :> (old \o SubSeq(threads[t].pending, 1, k))) @@ files
       /\ threads' = [threads EXCEPT
                        ![t].pending = SubSeq(@, k + 1, Len(@))]
  /\ UNCHANGED <<rnti_collectors, dir_exists, metadata, temp_phase, temp_cexp,
                 now, fs, last, prev, calls, race, corrupted, asserts_active>>

\* The stream is closed, the size is counted (line 465) and the call returns.
SameClose(t) ==
  /\ threads[t].pc = "writing"
  /\ threads[t].pending = <<>>
  /\ rnti_collectors' =
       update_size([rnti_collectors |-> rnti_collectors], SameKey,
                   16 + 12 * SameRequest.sequence_length).rnti_collectors
  /\ threads' = [threads EXCEPT ![t].pc = "idle", ![t].calls = @ + 1,
                                ![t].outcome = "returned"]
  /\ UNCHANGED <<dir_exists, files, metadata, temp_phase, temp_cexp,
                 now, fs, last, prev, calls, race, corrupted, asserts_active>>

\* ---------------------------------------------------------- specifications
\* SpecFirst: the first call of a fresh process, for every request.
RequestsWide ==
  RequestsOf({1, 2, 4}, {1, 2}, {12}, {2, 4}, {0, 1}, {0, 1}, {MinSeqLen, MaxSeqLen}, {1},
             {<<0>>, <<2, 3>>}, Contexts)

TaOne == TaMeasurements({1}, {-2}, {2}, {1})

FirstEstimate == calls = 0 /\ EstimateIn(GridKinds, RequestsWide, TaOne)

NextFirst == FirstEstimate

SpecFirst == Init /\ [][NextFirst]_vars

\* SpecTA: the first call of a fresh process, for every combination of
\* per-port time alignment measurements.
RequestsTA ==
  RequestsOf({1, 2, 4}, {1}, {13}, {2}, {0}, {0}, {MinSeqLen}, {1}, {<<0>>}, {CtxA})

TaMany ==
  TaMeasurements({-1, 1}, {-2, 1}, {3}, {2}) \cup TaMeasurements({1}, {-2}, {1, 3}, {0, 1})

MeasureEstimate == calls = 0 /\ EstimateIn({"tone"}, RequestsTA, TaMany)

NextTA == MeasureEstimate

SpecTA == Init /\ [][NextTA]_vars

\* Spec: up to MaxCalls calls in a row on one instance, with the clock and the
\* file system changing between them.
Requests ==
  RequestsOf({1}, {1}, {13}, {2}, {0}, {0}, {MinSeqLen}, {1}, {<<0>>}, {CtxNone, CtxA})
    \cup RequestsOf({2}, {1}, {13}, {2}, {0}, {0}, {MinSeqLen}, {1}, {<<0>>}, {CtxB})
    \cup RequestsOf({1}, {2}, {13}, {2}, {0}, {0}, {MinSeqLen}, {1}, {<<0>>}, {CtxA})
    \cup RequestsOf({1}, {1}, {13}, {8}, {0}, {0}, {MinSeqLen}, {1}, {<<0>>}, {CtxA})

Call == EstimateIn({"tone"}, Requests, TaOne)

Next == Call \/ Tick \/ SetFs

Spec == Init /\ [][Next]_vars

\* SpecScenario: the first call of a fresh process on a noiseless channel: one
\* transmit port with the all-ones pilot, every received sample 2 + 0j, a time
\* alignment estimate of 0.
RequestsScenario ==
  RequestsOf({1}, {1, 2}, {12}, {2, 4}, {0, 1}, {0}, {MinSeqLen, MaxSeqLen}, {1},
             {<<0>>, <<2, 3>>}, Contexts)

TaZero == TaMeasurements({0}, {-2, 0}, {0, 2}, {0, 1})

ScenarioEstimate == calls = 0 /\ EstimateIn({"flat"}, RequestsScenario, TaZero)

NextScenario == ScenarioEstimate

SpecScenario == Init /\ [][NextScenario]_vars

\* SpecMix: up to MaxCalls calls in a row on one instance with requests that
\* differ in the number of transmit ports (one, or four with interleaved
\* pilots), in the number of symbols and in the sequence length.
RequestsMix ==
  RequestsOf({1, 4}, {1, 2}, {12}, {2}, {0}, {1}, {MinSeqLen, MaxSeqLen}, {1}, {<<2, 3>>},
             {CtxA})

MixEstimate == EstimateIn({"tone"}, RequestsMix, TaOne)

NextMix == MixEstimate

SpecMix == Init /\ [][NextMix]_vars

\* SpecSkip: up to MaxCalls calls in a row with every kind of context, the file
\* system changing between them.
RequestsSkip ==
  RequestsOf({1}, {1}, {12}, {2}, {0}, {0}, {MinSeqLen}, {1}, {<<0>>},
             {CtxNone, CtxNoRnti, CtxBad, CtxZero, CtxWrap, CtxA})

SkipEstimate == EstimateIn({"tone"}, RequestsSkip, TaOne)

NextSkip == SkipEstimate \/ SetFs

SpecSkip == Init /\ [][NextSkip]_vars

\* SpecRotate: up to MaxCalls calls in a process that has been collecting for
\* RNTI 0x4601 for a long time.  A run <<a, b>> has written a records of 88
\* bytes and b records of 100 bytes to the first file of the collector; the
\* records and the metadata lines written before the first modelled call are
\* not listed.
LongRuns == {<<1191549, 11>>, <<1191550, 11>>, <<1191549, 12>>, <<1191563, 0>>}

LongRunSink(run) ==
  [rnti_collectors |->
     (17921 :> [rnti |-> 17921, packet_counter |-> run[1] + run[2], file_counter |-> 1,
                current_file_size |-> 88 * run[1] + 100 * run[2],
                current_filename |-> <<rnti_hex_of(17921), 0, 1>>,
                session_start_time |-> 0, initialized |-> TRUE]),
   dir_exists |-> TRUE,
   files |-> (<<rnti_hex_of(17921), 0, 1>> :> <<>>),
   metadata |-> <<>>]

InitRotate ==
  /\ \E run \in LongRuns :
       /\ rnti_collectors = LongRunSink(run).rnti_collectors
       /\ dir_exists = LongRunSink(run).dir_exists
       /\ files = LongRunSink(run).files
       /\ metadata = LongRunSink(run).metadata
  /\ temp_phase = NewScratch.temp_phase
  /\ temp_cexp = NewScratch.temp_cexp
  /\ now = 0
  /\ fs = [dir_ok |-> TRUE, meta_ok |-> TRUE, bin_ok |-> TRUE]
  /\ last = NoCall
  /\ prev = NoCall
  /\ calls = 0
  /\ threads = [t \in Threads |-> NewThread]
  /\ race = FALSE
  /\ corrupted = FALSE
  /\ asserts_active \in BOOLEAN

RequestsRotate ==
  RequestsOf({1, 2}, {1}, {12}, {2}, {0}, {0}, {MinSeqLen, MaxSeqLen}, {1}, {<<0>>},
             {CtxA, CtxB})

RotateEstimate == EstimateIn({"tone"}, RequestsRotate, TaOne)

NextRotate == RotateEstimate

SpecRotate == InitRotate /\ [][NextRotate]_vars

\* SpecConc: two execution contexts, each making up to MaxCalls calls for an
\* RNTI of its own, in every interleaving.
ThreadStep ==
  \E t \in Threads : ConcStart(t) \/ ConcLookupBegin(t) \/ ConcLookupEnd(t) \/ ConcUse(t)

NextConc == ThreadStep \/ Tick

SpecConc == Init /\ [][NextConc]_vars

\* SpecSame: two execution contexts, each making up to MaxCalls calls for the
\* same RNTI, in every interleaving.
SameStep == \E t \in Threads : SameOpen(t) \/ SameFlush(t) \/ SameClose(t)

NextSame == SameStep

SpecSame == InitSame /\ [][NextSame]_vars

\* ------------------------------------------------------------------ claims
\* What the formulas read of a call.
Returned == last.outcome = "returned"

AllPairs(cfg) == (0..(nof_rx_ports_of(cfg) - 1)) \X (0..(cfg.nof_antenna_ports - 1))

\* The call the same request makes on a fresh instance in a fresh process
\* whose sink never fails.
Reference(input) ==
  estimate(input.grid, input.cfg, input.ta,
           [now |-> 0, dir_ok |-> TRUE, meta_ok |-> TRUE, bin_ok |-> TRUE,
            asserts_active |-> asserts_active],
           NewScratch, NewSink)

\* Two inputs that differ at most in the context of the request.
SameButContext(a, b) ==
  /\ a.grid = b.grid
  /\ a.ta = b.ta
  /\ [a.cfg EXCEPT !.context = CtxNone] = [b.cfg EXCEPT !.context = CtxNone]

\* C1: the context of the request does not influence the returned value.  Two
\* consecutive calls whose requests differ only in the context, whatever the
\* sink holds, return the same channel matrix, time alignment, noise variance,
\* EPRE and RSRP.
C1_ContextDoesNotInfluence ==
  (prev.outcome = "returned" /\ Returned /\ SameButContext(prev.input, last.input))
    => last.result = prev.result

\* C2: the returned channel matrix has one row per receive port and one column
\* per transmit port, every entry has been assigned by the call, and every
\* entry is finite.
C2_MatrixCompleteAndFinite ==
  Returned =>
    LET cfg == last.input.cfg
        cm == last.result.channel_matrix
    IN  /\ cm.nof_rx_ports = nof_rx_ports_of(cfg)
        /\ cm.nof_tx_ports = cfg.nof_antenna_ports
        /\ Len(cm.coefficients) = nof_rx_ports_of(cfg)
        /\ \A r \in 1..Len(cm.coefficients) :
             Len(cm.coefficients[r]) = cfg.nof_antenna_ports
        /\ last.obs.assigned = AllPairs(cfg)
        /\ \A r \in 1..Len(cm.coefficients) :
             \A p \in 1..Len(cm.coefficients[r]) : cm.coefficients[r][p].finite

\* The sum of the squared magnitudes of the coefficients of a matrix, before
\* the division by noise_std.
RECURSIVE RowPower(_, _)
RowPower(row, p) == IF p = 0 THEN RZero ELSE RAdd(RowPower(row, p - 1), CNorm(row[p].coef))

RECURSIVE MatrixPower(_, _)
MatrixPower(rows, r) ==
  IF r = 0 THEN RZero ELSE RAdd(MatrixPower(rows, r - 1), RowPower(rows[r], Len(rows[r])))

\* C3: the noise standard deviation that normalises the matrix is at least
\* 0.01 sqrt(rsrp) (squared: noise_std^2 >= rsrp / 10^4), and the sum of the
\* squared magnitudes of the returned entries is never above 10^4.  (With
\* noise_std = 0 the entries are not numbers and exceed nothing.)
C3_SnrClamped ==
  Returned =>
    LET rows == last.result.channel_matrix.coefficients
    IN  /\ RLeq(RMul(last.obs.rsrp_acc, Rat(1, 10000)), last.obs.noise_std_sq)
        /\ \A r \in 1..Len(rows) : \A p \in 1..Len(rows[r]) :
             rows[r][p].std_sq = last.obs.noise_std_sq
        /\ RLeq(MatrixPower(rows, Len(rows)), RMul(RInt(10000), last.obs.noise_std_sq))

\* C3 happens: a call returned with a positive RSRP and a noise variance below
\* the floor, so that the floor is the noise_std used and the SNR is 10^4.
C3_Witness ==
  /\ Returned
  /\ RLt(RZero, last.obs.rsrp_acc)
  /\ RLt(last.result.noise_variance, last.obs.noise_std_sq)
  /\ last.obs.noise_std_sq = RMul(last.obs.rsrp_acc, Rat(1, 10000))
  /\ MatrixPower(last.result.channel_matrix.coefficients,
                 Len(last.result.channel_matrix.coefficients))
       = RMul(RInt(10000), last.obs.noise_std_sq)

\* The per-port measurements of the last call, in the order of the calls of
\* the time alignment estimator.
RECURSIVE MaxOfMins(_, _)
MaxOfMins(ta_calls, n) ==
  IF n = 1 THEN ta_calls[1].ta_meas.min
  ELSE LET rest == MaxOfMins(ta_calls, n - 1)
       IN  IF ta_calls[n].ta_meas.min > rest THEN ta_calls[n].ta_meas.min ELSE rest

RECURSIVE MinOfMaxs(_, _)
MinOfMaxs(ta_calls, n) ==
  IF n = 1 THEN ta_calls[1].ta_meas.max
  ELSE LET rest == MinOfMaxs(ta_calls, n - 1)
       IN  IF ta_calls[n].ta_meas.max < rest THEN ta_calls[n].ta_meas.max ELSE rest

RECURSIVE MaxOfResolutions(_, _)
MaxOfResolutions(ta_calls, n) ==
  IF n = 1 THEN ta_calls[1].ta_meas.resolution
  ELSE LET rest == MaxOfResolutions(ta_calls, n - 1)
       IN  IF ta_calls[n].ta_meas.resolution > rest THEN ta_calls[n].ta_meas.resolution
           ELSE rest

RECURSIVE SumOfEstimates(_, _)
SumOfEstimates(ta_calls, n) ==
  IF n = 0 THEN 0 ELSE SumOfEstimates(ta_calls, n - 1) + ta_calls[n].ta_meas.time_alignment

\* C4: the returned time alignment satisfies min <= estimate <= max.
C4_EstimateWithinBounds ==
  Returned =>
    /\ RLeq(last.result.time_alignment.min, last.result.time_alignment.time_alignment)
    /\ RLeq(last.result.time_alignment.time_alignment, last.result.time_alignment.max)

\* C5: the returned min is the maximum of the per-port minima.
C5_MinIsMaxOfMins ==
  Returned =>
    last.result.time_alignment.min
      = RInt(MaxOfMins(last.obs.ta_calls, Len(last.obs.ta_calls)))

\* C6: the returned max is the minimum of the per-port maxima and the returned
\* resolution is the maximum of the per-port resolutions.
C6_MaxAndResolution ==
  Returned =>
    /\ Len(last.obs.ta_calls) = last.input.cfg.nof_antenna_ports
    /\ last.result.time_alignment.max
         = RInt(MinOfMaxs(last.obs.ta_calls, Len(last.obs.ta_calls)))
    /\ last.result.time_alignment.resolution
         = RInt(MaxOfResolutions(last.obs.ta_calls, Len(last.obs.ta_calls)))

\* C6 happens: a call over several transmit ports returned, the ports differ
\* in their maxima and in their resolutions, and neither the smallest maximum
\* nor the largest resolution is the first port's.
C6_Witness ==
  /\ Returned
  /\ Len(last.obs.ta_calls) >= 2
  /\ MinOfMaxs(last.obs.ta_calls, Len(last.obs.ta_calls)) < last.obs.ta_calls[1].ta_meas.max
  /\ MaxOfResolutions(last.obs.ta_calls, Len(last.obs.ta_calls))
       > last.obs.ta_calls[1].ta_meas.resolution
  /\ last.result.time_alignment.max = RInt(1)
  /\ last.result.time_alignment.resolution = RInt(2)

\* The positions of the events of a kind in a log.
EventsOf(log, ev) == {i \in 1..Len(log) : log[i].ev = ev}

C8_Idempotent ==
  (prev.outcome = "returned" /\ Returned /\ prev.input = last.input)
    => last.result = prev.result

\* C8 happens: the same request, one that carries an RNTI, was served twice in
\* a row; the first call left non-zero scratch buffers and an initialised
\* collector behind, and the second call returned.
C8_Witness ==
  /\ calls = 2
  /\ prev.outcome = "returned"
  /\ Returned
  /\ prev.input = last.input
  /\ last.input.cfg.context = CtxB
  /\ last.input.cfg.nof_antenna_ports = 2
  /\ temp_cexp # NewScratch.temp_cexp
  /\ 17922 \in DOMAIN rnti_collectors
  /\ rnti_collectors[17922].packet_counter = 4

\* C9: no failure of the sink reaches the caller.  Every call whose request
\* passes the assertion returns, and returns what it returns when the sink
\* does not fail.
C9_SinkFailuresAbsorbed ==
  (last.outcome # "none" /\ symbols_fit(last.input.cfg)) =>
    /\ last.outcome = "returned"
    /\ last.result = Reference(last.input).result

\* What a context returns when it runs alone.
SerialResult(t) ==
  Reference([grid |-> "tone", cfg |-> ThreadRequest(t), ta |-> ThreadTa]).result

\* C10: calls that run at once on different instances for different RNTIs
\* never access shared state in conflict, never leave the collector map
\* inconsistent, and return what they return when they run one after the other.
C10_ConcurrentCallsSafe ==
  /\ ~race
  /\ ~corrupted
  /\ \A t \in Threads : threads[t].outcome = "returned" => threads[t].result = SerialResult(t)

\* The interleaved-pilot condition as the specification words it: four
\* transmit ports and a cyclic shift of port 0 of at least half the maximum.
Interleaved(cfg) ==
  cfg.nof_antenna_ports = 4 /\ 2 * cfg.cyclic_shift >= n_cs_max_of(cfg.comb_size)

\* C11: the returned noise_variance is the noise accumulator divided by
\* (nof_symbols * sequence_length - n_estimates) * correction * nof_rx_ports,
\* with (n_estimates, correction) = (2, 2) exactly when the pilots are
\* interleaved and (nof_antenna_ports, 1) otherwise; it is that quotient also
\* when the floor makes noise_std larger.
C11_NoiseVariance ==
  Returned =>
    LET cfg == last.input.cfg
        n_estimates == IF Interleaved(cfg) THEN 2 ELSE cfg.nof_antenna_ports
        correction == IF Interleaved(cfg) THEN 2 ELSE 1
    IN  last.result.noise_variance
          = RDiv(last.obs.noise_acc,
                 RInt((cfg.nof_symbols * cfg.sequence_length - n_estimates)
                        * correction * nof_rx_ports_of(cfg)))

\* C11 happens: a call with interleaved pilots over two receive ports and two
\* symbols returned a positive noise variance.
C11_Witness ==
  /\ Returned
  /\ Interleaved(last.input.cfg)
  /\ nof_rx_ports_of(last.input.cfg) = 2
  /\ last.input.cfg.nof_symbols = 2
  /\ RLt(RZero, last.result.noise_variance)

\* C12: scenario A.  One transmit port, one receive port, one symbol, pilot
\* all 1 + 0j, samples all 2 + 0j, time alignment 0: the coefficient before
\* normalisation is 2 + 0j, the linear RSRP is 4, the linear EPRE is 4 and the
\* noise variance is 0.
C12_ScenarioA ==
  (Returned /\ last.input.grid = "flat"
     /\ last.input.cfg.nof_antenna_ports = 1 /\ nof_rx_ports_of(last.input.cfg) = 1
     /\ last.input.cfg.nof_symbols = 1 /\ last.input.cfg.cyclic_shift = 0
     /\ last.result.time_alignment.time_alignment = RZero)
    => /\ last.result.channel_matrix.coefficients[1][1].coef = CInt(2, 0)
       /\ last.result.rsrp_dB = convert_power_to_dB(RInt(4))
       /\ last.result.epre_dB = convert_power_to_dB(RInt(4))
       /\ last.result.noise_variance = RZero

\* C13: scenario B.  On the noiseless, time-invariant channel the result with
\* two symbols is the result with one symbol.
C13_ScenarioB ==
  (Returned /\ last.input.grid = "flat" /\ last.input.cfg.nof_symbols = 2)
    => last.result = Reference([last.input EXCEPT !.cfg.nof_symbols = 1]).result

\* A request the validator or the slot length rejects.
Invalid(cfg) == ~is_valid(cfg) \/ cfg.start_symbol + cfg.nof_symbols > 14

\* C14: a call with an invalid request does not return; it ends before any
\* grid read, before the sequence generator and the time alignment estimator
\* are called, and leaves the sink and the scratch buffers as they were.  Every
\* grid read of a call that returns uses a symbol of the request, below 14.
C14_InvalidRequestFatal ==
  [][(calls' = calls + 1) =>
       /\ Invalid(last'.input.cfg) =>
            /\ last'.outcome = "abort"
            /\ last'.obs.log = <<>>
            /\ last'.obs.ta_calls = <<>>
            /\ UNCHANGED <<rnti_collectors, dir_exists, files, metadata, temp_phase, temp_cexp>>
       /\ last'.outcome = "returned" =>
            /\ ~Invalid(last'.input.cfg)
            /\ \A i \in EventsOf(last'.obs.log, "grid_get") :
                 /\ last'.obs.log[i].x[1] >= last'.input.cfg.start_symbol
                 /\ last'.obs.log[i].x[1]
                      < last'.input.cfg.start_symbol + last'.input.cfg.nof_symbols
                 /\ last'.obs.log[i].x[1] < 14]_vars

\* The sizes of the records a call has written, in the order of writing.
RecordSizes(log) == [i \in 1..Len(log) |-> IF log[i].ev = "record" THEN log[i].x[1] ELSE 0]

\* The size of the records of a call (0 when it wrote none).
RecordSize(sizes) ==
  IF \A i \in DOMAIN sizes : sizes[i] = 0 THEN 0
  ELSE CHOOSE x \in {sizes[i] : i \in DOMAIN sizes} : x # 0

\* What the rotation rule asks of a collector at <<file_counter, size>> after
\* the records sizes[i..]: a new file whose size counts from 0 when the record
\* would pass the limit, the same file otherwise.
RECURSIVE Rotated(_, _, _)
Rotated(at, sizes, i) ==
  IF i > Len(sizes) THEN at
  ELSE IF sizes[i] = 0 THEN Rotated(at, sizes, i + 1)
  ELSE IF at[2] + sizes[i] > 100 * 1024 * 1024
    THEN Rotated(<<at[1] + 1, sizes[i]>>, sizes, i + 1)
    ELSE Rotated(<<at[1], at[2] + sizes[i]>>, sizes, i + 1)

\* The number of records in the file of the name.
RecordsIn(fls, name) == IF name \in DOMAIN fls THEN Len(fls[name]) ELSE 0

RECURSIVE FileBytes(_, _)
FileBytes(records, i) ==
  IF i > Len(records) THEN 0 ELSE record_bytes(records[i]) + FileBytes(records, i + 1)

NameRnti(name) == name[1][1] * 4096 + name[1][2] * 256 + name[1][3] * 16 + name[1][4]

C18_FloorUsesReportedRsrp ==
  Returned =>
    last.obs.noise_std_sq
      = RMax(last.result.noise_variance, RMul(last.result.rsrp_dB.dB_of, Rat(1, 10000)))

\* The events of a kind on the noise buffer of a receive port and a parity
\* that precede position i of a log.
BufferEvents(log, ev, r, row, i) ==
  {j \in 1..(i - 1) : log[j].ev = ev /\ log[j].r = r /\ log[j].x[1] = row}

\* The transmit ports whose reconstructed signal belongs to a parity.
PortsOfParity(cfg, row) ==
  {p \in 0..(cfg.nof_antenna_ports - 1) : ~Interleaved(cfg) \/ p % 2 = row}

\* C20: when the residual power of the noise buffer of a receive port and an
\* active parity is accumulated, the buffer has received the raw samples of
\* every symbol, of transmit port 0 for parity 0 and of transmit port 1 for
\* parity 1, and the reconstructed signal of every transmit port of the parity
\* (of every transmit port when the pilots are not interleaved) has been
\* subtracted from it once.
C20_NoiseBufferComplete ==
  Returned =>
    LET cfg == last.input.cfg
        log == last.obs.log
    IN  /\ \A r \in 0..(nof_rx_ports_of(cfg) - 1) :
             \A row \in (IF Interleaved(cfg) THEN {0, 1} ELSE {0}) :
               \E i \in EventsOf(log, "noise_power") : log[i].r = r /\ log[i].x[1] = row
        /\ \A i \in EventsOf(log, "noise_power") :
             /\ Cardinality(BufferEvents(log, "noise_add", log[i].r, log[i].x[1], i))
                  = cfg.nof_symbols
             /\ \A j \in BufferEvents(log, "noise_add", log[i].r, log[i].x[1], i) :
                  log[j].p = log[i].x[1]
             /\ Cardinality(BufferEvents(log, "subtract", log[i].r, log[i].x[1], i))
                  = (IF Interleaved(cfg) THEN 2 ELSE cfg.nof_antenna_ports)
             /\ {log[j].p : j \in BufferEvents(log, "subtract", log[i].r, log[i].x[1], i)}
                  = PortsOfParity(cfg, log[i].x[1])

\* C19: with two concurrent calls for one RNTI, every record of the binary file
\* is contiguous (a unit that is not a header follows the unit before it of
\* the same record) and, once the calls have returned, complete (every unit
\* but the last of a record is followed by the next one).
C19_SameRntiRecordsIntact ==
  \A name \in DOMAIN files :
    LET f == files[name]
    IN  /\ \A i \in 1..Len(f) :
             f[i].unit # 0 =>
               /\ i > 1
               /\ f[i - 1].writer = f[i].writer
               /\ f[i - 1].call = f[i].call
               /\ f[i - 1].unit = f[i].unit - 1
        /\ (\A t \in Threads : threads[t].pc = "idle") =>
             \A i \in 1..Len(f) :
               f[i].unit # f[i].tone_count =>
                 /\ i < Len(f)
                 /\ f[i + 1].writer = f[i].writer
                 /\ f[i + 1].call = f[i].call
                 /\ f[i + 1].unit = f[i].unit + 1

\* C21: the number of average-power terms added to the EPRE accumulator is
\* num_symbols * correction * num_rx_ports, the divisor of the reported EPRE,
\* so that the reported linear EPRE is the mean of the terms.
C21_EpreIsMean ==
  Returned =>
    LET cfg == last.input.cfg
        terms == Cardinality(EventsOf(last.obs.log, "noise_add"))
    IN  /\ terms = cfg.nof_symbols * (IF Interleaved(cfg) THEN 2 ELSE 1) * nof_rx_ports_of(cfg)
        /\ last.result.epre_dB.dB_of = RDiv(last.obs.epre_acc, RInt(terms))

\* C21 happens: a call with interleaved pilots, two receive ports and two
\* symbols returned a positive EPRE.
C21_Witness ==
  /\ Returned
  /\ Interleaved(last.input.cfg)
  /\ nof_rx_ports_of(last.input.cfg) = 2
  /\ last.input.cfg.nof_symbols = 2
  /\ RLt(RZero, last.result.epre_dB.dB_of)

\* The events of a kind of a receive port and a transmit port in a log.
PairEvents(log, ev, r, p) == {j \in 1..Len(log) : log[j].ev = ev /\ log[j].r = r /\ log[j].p = p}

\* The events of a kind on the noise buffer of a receive port and a parity.
RowEvents(log, ev, r, row) ==
  {j \in 1..Len(log) : log[j].ev = ev /\ log[j].r = r /\ log[j].x[1] = row}

\* C22: within a call the least-squares buffer of every pair is compensated
\* once, with the averaged time alignment the call returns and after the
\* average was taken; every active noise buffer is compensated once, before
\* the first reconstructed signal is subtracted from it.
C22_CompensatedOnce ==
  Returned =>
    LET cfg == last.input.cfg
        log == last.obs.log
    IN  /\ \A pair \in AllPairs(cfg) :
             /\ Cardinality(PairEvents(log, "compensate_lse", pair[1], pair[2])) = 1
             /\ \A j \in PairEvents(log, "compensate_lse", pair[1], pair[2]) :
                  /\ log[j].x = last.result.time_alignment.time_alignment
                  /\ \E a \in EventsOf(log, "ta_average") : a < j
        /\ \A r \in 0..(nof_rx_ports_of(cfg) - 1) :
             \A row \in (IF Interleaved(cfg) THEN {0, 1} ELSE {0}) :
               /\ Cardinality(RowEvents(log, "compensate_noise", r, row)) = 1
               /\ \A j \in RowEvents(log, "compensate_noise", r, row) :
                    \A k \in RowEvents(log, "subtract", r, row) : j < k

\* round(table_size * phase / (2 pi)) for element n of the last compensation
\* of a call, that of the last transmit port: phase = n * phase_per_subcarrier
\* + phase_offset with the time alignment the call returns.
RoundedPhase(cfg, ta, n) ==
  LET per_subcarrier ==
        RMul(ta, Rat(scs_to_khz(cfg.numerology) * 1000 * cfg.comb_size, UnitsPerSecond))
      offset ==
        RMul(per_subcarrier,
             Rat(get_srs_information(cfg, cfg.nof_antenna_ports - 1).mapping_initial_subcarrier,
                 cfg.comb_size))
  IN  RRound(RMul(RInt(cexp_table_size), RAdd(RMul(RInt(n), per_subcarrier), offset)))

C24_NoScratchCarried ==
  (calls > 1 /\ Returned) => last.result = Reference(last.input).result

\* C24 happens: after a call with four interleaved transmit ports, two symbols
\* and the longer sequence, a call with one transmit port, one symbol and the
\* shorter sequence returned.
C24_Witness ==
  /\ calls > 1
  /\ prev.outcome = "returned"
  /\ Interleaved(prev.input.cfg)
  /\ prev.input.cfg.nof_symbols = 2
  /\ prev.input.cfg.sequence_length = MaxSeqLen
  /\ Returned
  /\ last.input.cfg.nof_antenna_ports = 1
  /\ last.input.cfg.nof_symbols = 1
  /\ last.input.cfg.sequence_length = MinSeqLen
  /\ temp_cexp # NewScratch.temp_cexp

\* A context the collection has no RNTI for: absent, without "rnti=0x", with
\* digits that do not parse, or with RNTI 0.
Unusable(context) ==
  \/ ~context.has_value
  \/ ~context.has_rnti
  \/ ~stoul16(context.digits).ok
  \/ stoul16(context.digits).value % 65536 = 0

\* C25: a call whose context gives no RNTI leaves the sink as it was: the map
\* of collectors with their counters and sizes, the directory, the binary
\* files and the metadata file.
C25_SkipLeavesSink ==
  [][(calls' = calls + 1 /\ Unusable(last'.input.cfg.context)) =>
       UNCHANGED <<rnti_collectors, dir_exists, files, metadata>>]_vars

\* C25 happens: a call with RNTI 0 returned in a process whose sink holds the
\* collector and the file of an earlier call.
C25_Witness ==
  /\ calls > 1
  /\ Returned
  /\ last.input.cfg.context = CtxZero
  /\ 17921 \in DOMAIN rnti_collectors
  /\ files # <<>>

\* The coefficients of a record, in the order of its samples.
RecordCoefficients(record) ==
  Vec([i \in 1..Len(record.samples) |-> record.samples[i].h], Len(record.samples))

\* C26: a call with a usable RNTI and a writable sink, on a new process,
\* leaves one file with one record per (receive, transmit) pair, the pairs of
\* a receive port next to each other and in the order of the transmit ports;
\* the record has one sample per tone of the sequence, and the wideband
\* coefficient the call computed for the pair is the mean of the record's
\* coefficients; the record is written once, after the buffer of the pair was
\* compensated.
C26_RecordPerPair ==
  (Returned /\ ~Unusable(last.input.cfg.context)) =>
    LET cfg == last.input.cfg
        matrix == last.result.channel_matrix
    IN  /\ Cardinality(DOMAIN files) = 1
        /\ \A name \in DOMAIN files :
             /\ Len(files[name]) = Len(cfg.ports) * cfg.nof_antenna_ports
             /\ \A r \in 0..(Len(cfg.ports) - 1), p \in 0..(cfg.nof_antenna_ports - 1) :
                  \E record \in {files[name][r * cfg.nof_antenna_ports + p + 1]} :
                    /\ record.tx_port = p
                    /\ Cardinality(PairEvents(last.obs.log, "record", r, p)) = 1
                    /\ \A j \in PairEvents(last.obs.log, "record", r, p) :
                         \E k \in PairEvents(last.obs.log, "compensate_lse", r, p) : k < j
                    /\ record.seq_len = cfg.sequence_length
                    /\ Len(record.samples) = cfg.sequence_length
                    /\ CScale(CSum(RecordCoefficients(record), Len(record.samples)),
                              Rat(1, Len(record.samples)))
                         = matrix.coefficients[r + 1][p + 1].coef

\* C26 happens: a call with two receive ports and four transmit ports
\* returned, its records written, the coefficients of a record not all equal.
C26_Witness ==
  /\ Returned
  /\ ~Unusable(last.input.cfg.context)
  /\ Len(last.input.cfg.ports) = 2
  /\ last.input.cfg.nof_antenna_ports = 4
  /\ \E name \in DOMAIN files :
       /\ Len(files[name]) = 8
       /\ \E k \in 1..8 : files[name][k].samples[1].h # files[name][k].samples[2].h

\* C27: the receive-port field of every record is the identifier of the
\* receive port its samples were read from, the entry of the request's list
\* of ports for the pair of the record.
C27_RxPortIdentifier ==
  (Returned /\ ~Unusable(last.input.cfg.context)) =>
    LET cfg == last.input.cfg
    IN  \A name \in DOMAIN files :
          \A r \in 0..(Len(cfg.ports) - 1), p \in 0..(cfg.nof_antenna_ports - 1) :
            files[name][r * cfg.nof_antenna_ports + p + 1].rx_port = cfg.ports[r + 1]

\* C28: in every call and for every RNTI, the metadata lines and the records
\* are in step: the call that initialises the collector writes one
\* "session_start" line, naming file 1; every file the collector moves to
\* afterwards gets one "file_rotation" line naming it; no other line is
\* written; the file numbers only grow, by one per file, and the records of
\* the call go to files of the session numbered from the file the call found
\* to the file it leaves.
C28_SessionOrdered ==
  [][calls' = calls + 1 =>
       \A k \in DOMAIN rnti_collectors' :
         LET old == IF k \in DOMAIN rnti_collectors THEN rnti_collectors[k] ELSE SRSCSICollector
             new == rnti_collectors'[k]
             added == {j \in (Len(metadata) + 1)..Len(metadata') : metadata'[j].rnti = k}
             grown == {name \in DOMAIN files' :
                         /\ name[1] = rnti_hex_of(k)
                         /\ Len(files'[name])
                              > (IF name \in DOMAIN files THEN Len(files[name]) ELSE 0)}
         IN  /\ new.file_counter >= old.file_counter
             /\ Cardinality({j \in added : metadata'[j].event = "session_start"})
                  = (IF new.initialized /\ ~old.initialized THEN 1 ELSE 0)
             /\ \A n \in (old.file_counter + 1)..new.file_counter :
                  Cardinality({j \in added :
                                 /\ metadata'[j].file
                                      = <<rnti_hex_of(k), new.session_start_time, n>>
                                 /\ metadata'[j].event
                                      = (IF n = 1 THEN "session_start" ELSE "file_rotation")})
                    = 1
             /\ Cardinality(added) = new.file_counter - old.file_counter
             /\ \A name \in grown :
                  /\ name[2] = new.session_start_time
                  /\ name[3] >= 1
                  /\ name[3] \in old.file_counter..new.file_counter]_vars

\* The subcarriers of the widest resource grid: 275 resource blocks of 12.
max_nof_subcarriers == 275 * 12

\* C29: in every record the subcarrier index of tone n is k0 + n * comb_size,
\* k0 the initial subcarrier of the record's transmit port, so the indices
\* grow by comb_size from one tone to the next; and the index of the last
\* subcarrier of the widest grid is stored as it is, for both comb sizes and
\* every initial subcarrier below the comb size.
C29_SubcarrierIndices ==
  /\ \A name \in DOMAIN files :
       \A k \in 1..Len(files[name]) :
         \E record \in {files[name][k]} :
           \E k0 \in {get_srs_information(last.input.cfg,
                                          record.tx_port).mapping_initial_subcarrier} :
             \A i \in 1..Len(record.samples) :
               /\ record.samples[i].sc_idx = k0 + (i - 1) * last.input.cfg.comb_size
               /\ i > 1 => record.samples[i].sc_idx - record.samples[i - 1].sc_idx
                              = last.input.cfg.comb_size
  /\ \A comb_size \in {2, 4} :
       \A k0 \in 0..(comb_size - 1) :
         \E n \in {(max_nof_subcarriers - 1 - k0) \div comb_size} :
           sc_idx_of([mapping_initial_subcarrier |-> k0], comb_size, n) = k0 + n * comb_size

\* C29 happens: a record of a transmit port whose first tone is not on
\* subcarrier 0, with comb size 4, was written.
C29_Witness ==
  /\ Returned
  /\ last.input.cfg.comb_size = 4
  /\ \E name \in DOMAIN files :
       \E k \in 1..Len(files[name]) :
         /\ files[name][k].samples[1].sc_idx > 0
         /\ files[name][k].samples[2].sc_idx = files[name][k].samples[1].sc_idx + 4

====
